---------------------------- MODULE Spec2Model ----------------------------
(***************************************************************************)
(* Video-Audio-RAG: the audio extractor, the transcription client, the     *)
(* metadata store, the vector store, the video pipeline and the chat       *)
(* engine, as state machines over the two stores and the three directories *)
(* (input, finished, scratch).                                             *)
(*                                                                         *)
(* Representation.  Times are kept in whole milliseconds: the code's       *)
(* start_time / end_time (seconds, a float) is the model's value / 1000,   *)
(* exact for every duration below 2^50 ms.  A video name is <<stem,        *)
(* suffix>>.  A scratch file is <<stem, i>>: <<stem, -1>> is "<stem>.wav"  *)
(* and <<stem, i>> is "<stem>_<i>.wav".  A text is a sequence of           *)
(* characters.  A row's vector_id None is the number 0.                    *)
(***************************************************************************)
EXTENDS Integers, Sequences, FiniteSets, TLC

VARIABLES
    chunk_length,   \* config.CHUNK_LENGTH_SECONDS
    videos,         \* table video_metadata: a set of rows
    chunks,         \* table transcript_chunks: a set of rows
    entries,        \* the Chroma collection: a set of entries
    scratch,        \* the files of AudioExtractor.temp_dir
    inputFiles,     \* the source videos still at their original path
    finishedFiles,  \* the files of config.VIDEOS_FINISHED_PATH
    chat_history,   \* RAGChat.chat_history
    session,        \* Database.session: "active", or "inactive" after a failed
                    \* commit that was not rolled back
    call            \* the last operation: its name, arguments and outcome

vars == <<chunk_length, videos, chunks, entries, scratch, inputFiles,
          finishedFiles, chat_history, session, call>>

-----------------------------------------------------------------------------
(* Bounds of the model *)

\* chunk lengths 1..MaxChunkLen seconds are tried by the splitting specification
MaxChunkLen == 2
\* audio lengths 0..MaxAudioMs milliseconds are tried by the splitting specification
MaxAudioMs == 4100
\* a failing transcription, export or chunk insert fails at chunk 0..MaxFailIdx
MaxFailIdx == 0
\* format_time is tried on every whole number of seconds 0..MaxSeconds
MaxSeconds == 7300
\* add_transcripts is given lists of up to MaxTranscripts transcripts
MaxTranscripts == 2
\* the store-level operations stop adding chunk rows at MaxChunkRows rows
MaxChunkRows == 2
\* the store-level operations stop adding entries at MaxEntries entries
MaxEntries == 2
\* the store-level operations stop adding once the next row or entry id passes MaxId
MaxId == 3
\* the chat engine is asked until its history holds MaxTurns question/answer pairs
MaxTurns == 2

-----------------------------------------------------------------------------
(* Arithmetic helpers *)

Min(a, b) == IF a <= b THEN a ELSE b

\* math.ceil(a / b) for integers a >= 0, b > 0
Ceil(a, b) == (a + b - 1) \div b

Range(s) == {s[i] : i \in DOMAIN s}

-----------------------------------------------------------------------------
(* Src/audio_extractor.py *)

AudioFile(stem) == <<stem, -1>>
ChunkFile(stem, i) == <<stem, i>>

\* math.ceil(duration_in_seconds / chunk_length), with duration_in_seconds = len(audio) / 1000
num_chunks(lenMs, L) == Ceil(lenMs, L * 1000)

\* A plausible slip: the last window padded to the full chunk length.
split_chunk_padded(stem, lenMs, L, i) ==
    <<ChunkFile(stem, i), i * L * 1000, (i + 1) * L * 1000>>

\* the tuple appended for loop index i: (chunk_path, start_time, end_time)
split_chunk(stem, lenMs, L, i) ==
    LET start_ms == i * L * 1000
        end_ms   == Min(lenMs, (i + 1) * L * 1000)
    IN  <<ChunkFile(stem, i), start_ms, end_ms>>

(***************************************************************************)
(* split_audio(audio_path) for an audio of lenMs milliseconds.  io says    *)
(* what the file system does: stage "load" (AudioSegment.from_file         *)
(* raises), stage "export" (the export of chunk number io.idx raises,      *)
(* leaving the partly written file when io.partial), anything else: no     *)
(* failure.  Any exception is logged and the function falls off its end,   *)
(* returning None.  The result: none (None was returned), value (the       *)
(* list) and written (the files it wrote).                                 *)
(***************************************************************************)
split_audio(stem, lenMs, L, io) ==
    LET n    == num_chunks(lenMs, L)
        all  == [i \in 1..n |-> split_chunk(stem, lenMs, L, i - 1)]
    IN  IF io.stage = "load"
        THEN [none |-> TRUE, value |-> <<>>, written |-> {}]
        ELSE IF io.stage = "export" /\ io.idx < n
        THEN [none |-> TRUE, value |-> <<>>,
              written |-> {ChunkFile(stem, i) : i \in 0..(io.idx - 1)}
                          \cup (IF io.partial THEN {ChunkFile(stem, io.idx)} ELSE {})]
        ELSE [none |-> FALSE, value |-> all,
              written |-> {ChunkFile(stem, i) : i \in 0..(n - 1)}]

(***************************************************************************)
(* extract_audio(video_path): opens the video and writes <stem>.wav.  It   *)
(* raises when the file is not there or the decode fails (stage            *)
(* "extract"); a failed write may leave the partly written file.           *)
(***************************************************************************)
extract_audio(files, v, io) ==
    IF v \notin files
    THEN [raised |-> TRUE, written |-> {}]
    ELSE IF io.stage = "extract"
    THEN [raised |-> TRUE, written |-> IF io.partial THEN {AudioFile(v[1])} ELSE {}]
    ELSE [raised |-> FALSE, written |-> {AudioFile(v[1])}]

\* file_path = None
NoPath == <<>>

\* lines 104-106: the files of temp_dir are unlinked in the order glob gives
\* them; the first unlink that raises ends the loop, the files after it stay
RECURSIVE unlink_all(_, _)
unlink_all(listing, locked) ==
    IF listing = <<>> THEN {}
    ELSE IF Head(listing) \in locked THEN Range(listing)
    ELSE unlink_all(Tail(listing), locked)

(***************************************************************************)
(* cleanup(file_path): listing is temp_dir in glob order, locked the files *)
(* whose unlink raises.  With a path, that file alone is unlinked if it    *)
(* exists; with None every file is, up to the first failure.  An exception *)
(* is logged and swallowed.  The result is what is left in temp_dir.       *)
(***************************************************************************)
cleanup(listing, file_path, locked) ==
    IF file_path # NoPath
    THEN IF file_path \in Range(listing) /\ file_path \notin locked
         THEN Range(listing) \ {file_path}
         ELSE Range(listing)
    ELSE unlink_all(listing, locked)

-----------------------------------------------------------------------------
(* Src/transcriber.py *)

Digit(d) == CASE d = 0 -> "0" [] d = 1 -> "1" [] d = 2 -> "2" [] d = 3 -> "3"
              [] d = 4 -> "4" [] d = 5 -> "5" [] d = 6 -> "6" [] d = 7 -> "7"
              [] d = 8 -> "8" [] d = 9 -> "9"

RECURSIVE Digits(_)
Digits(n) == IF n < 10 THEN <<Digit(n)>> ELSE Digits(n \div 10) \o <<Digit(n % 10)>>

\* f"{n:02d}"
Pad2(n) == IF n < 10 THEN <<"0">> \o Digits(n) ELSE Digits(n)

\* A plausible slip: the hours wrapped around at the end of a day.
format_time_day_rollover(ms) ==
    LET hours   == (ms \div 3600000) % 24
        minutes == (ms % 3600000) \div 60000
        secs    == (ms % 60000) \div 1000
    IN  Pad2(hours) \o <<":">> \o Pad2(minutes) \o <<":">> \o Pad2(secs)

\* format_time(time), time = ms / 1000 seconds
format_time(ms) ==
    LET hours   == ms \div 3600000
        minutes == (ms % 3600000) \div 60000
        secs    == (ms % 60000) \div 1000
    IN  Pad2(hours) \o <<":">> \o Pad2(minutes) \o <<":">> \o Pad2(secs)

\* the dictionary transcribe_chunk returns for the text the service gave
transcribe_chunk(text, start_time, end_time) ==
    [text |-> text, start_time |-> start_time, end_time |-> end_time,
     duration |-> end_time - start_time,
     start_formatted |-> format_time(start_time),
     end_formatted |-> format_time(end_time)]

\* the text the speech-to-text service returns for the chunk at position i (0-based)
TextAt(texts, i) == texts[(i % Len(texts)) + 1]

\* A plausible slip: a chunk whose transcription fails is given an empty text
\* and the loop goes on.
transcribe_all_chunks_tolerant(chs, texts, io) ==
    [raised |-> FALSE,
     value  |-> [k \in 1..Len(chs) |->
                   [r \in {"chunk_index", "audio_name"} |->
                      IF r = "chunk_index" THEN k - 1 ELSE chs[k][1]]
                   @@ transcribe_chunk(
                        IF io.stage = "transcribe" /\ io.idx = k - 1
                        THEN <<>> ELSE TextAt(texts, k - 1),
                        chs[k][2], chs[k][3])],
     called |-> [k \in 1..Len(chs) |-> k - 1]]

(***************************************************************************)
(* transcribe_all_chunks(chunks).  Each element is unpacked into the four  *)
(* names (audio_path, start_time, end_time, audio_name): an element that   *)
(* is not a 4-tuple raises ValueError at its turn.  The service raises at  *)
(* position io.idx when io.stage = "transcribe".  The first failure ends   *)
(* the loop and propagates.  called: the positions whose transcription was *)
(* requested, in order.                                                    *)
(***************************************************************************)
transcribe_all_chunks(chs, texts, io) ==
    LET n      == Len(chs)
        Bad(i) == \/ Len(chs[i + 1]) # 4
                  \/ (io.stage = "transcribe" /\ io.idx = i)
        fails  == {i \in 0..(n - 1) : Bad(i)}
        first  == IF fails = {} THEN n
                  ELSE CHOOSE i \in fails : \A j \in fails : i <= j
        done   == [k \in 1..first |->
                     [r \in {"chunk_index", "audio_name"} |->
                        IF r = "chunk_index" THEN k - 1 ELSE chs[k][4]]
                     @@ transcribe_chunk(TextAt(texts, k - 1), chs[k][2], chs[k][3])]
        called == IF first < n /\ Len(chs[first + 1]) = 4
                  THEN [k \in 1..(first + 1) |-> k - 1]
                  ELSE [k \in 1..first |-> k - 1]
    IN  IF first < n
        THEN [raised |-> TRUE, value |-> <<>>, called |-> called]
        ELSE [raised |-> FALSE, value |-> done, called |-> called]

-----------------------------------------------------------------------------
(* Src/database.py *)

\* the id SQLite gives the next row of a table whose primary key is the rowid
NextId(rows) ==
    IF rows = {} THEN 1
    ELSE (CHOOSE m \in {r.id : r \in rows} : \A r \in rows : r.id <= m) + 1

\* get_video_by_name / video_exists
video_exists(vids, name) == \E r \in vids : r.video_name = name

\* A plausible slip: the handler logs and re-raises without rolling back.
add_video_no_rollback(vids, name, original_path, total_duration, total_chunks, fails) ==
    IF fails \/ video_exists(vids, name)
    THEN [raised |-> TRUE, videos |-> vids, id |-> 0, session |-> "inactive"]
    ELSE LET id == NextId(vids)
         IN  [raised |-> FALSE,
              videos |-> vids \cup {[id |-> id, video_name |-> name,
                                     original_path |-> original_path,
                                     total_chunks |-> total_chunks,
                                     total_duration |-> total_duration,
                                     status |-> "completed"]},
              id |-> id, session |-> "active"]

(***************************************************************************)
(* add_video: INSERT and commit.  The unique constraint on video_name (or  *)
(* any other database error, fails: among them a session left inactive by  *)
(* an earlier failed commit) makes the commit raise; the handler rolls the *)
(* session back, which makes it active again, and re-raises.               *)
(***************************************************************************)
add_video(vids, name, original_path, total_duration, total_chunks, fails) ==
    IF fails \/ video_exists(vids, name)
    THEN [raised |-> TRUE, videos |-> vids, id |-> 0, session |-> "active"]
    ELSE LET id == NextId(vids)
         IN  [raised |-> FALSE,
              videos |-> vids \cup {[id |-> id, video_name |-> name,
                                     original_path |-> original_path,
                                     total_chunks |-> total_chunks,
                                     total_duration |-> total_duration,
                                     status |-> "completed"]},
              id |-> id, session |-> "active"]

\* the row add_transcript_chunk builds from chunk_data (vector_id defaults to None)
chunk_row(id, name, chunk_data, vector_id) ==
    [id |-> id, video_name |-> name, vector_id |-> vector_id,
     text |-> chunk_data.text,
     start_time |-> chunk_data.start_time, end_time |-> chunk_data.end_time,
     start_formatted |-> chunk_data.start_formatted,
     end_formatted |-> chunk_data.end_formatted,
     char_count |-> Len(chunk_data.text),
     chunk_index |-> chunk_data.chunk_index]

\* add_transcript_chunk: INSERT and commit; on an error rollback and re-raise
\* (vector_id 0: the default None)
add_transcript_chunk(chs, name, chunk_data, vector_id, fails) ==
    IF fails
    THEN [raised |-> TRUE, chunks |-> chs, id |-> 0, session |-> "active"]
    ELSE LET id == NextId(chs)
         IN  [raised |-> FALSE,
              chunks |-> chs \cup {chunk_row(id, name, chunk_data, vector_id)},
              id |-> id, session |-> "active"]

\* update_chunk_vector_id: the row of that id, if there is one, gets the
\* vector id and the change is committed; an error is rolled back and logged
update_chunk_vector_id(chs, chunk_id, vector_id, fails) ==
    IF fails THEN [chunks |-> chs, session |-> "active"]
    ELSE [chunks |-> {IF r.id = chunk_id THEN [r EXCEPT !.vector_id = vector_id]
                      ELSE r : r \in chs},
          session |-> "active"]

\* get_chunks_by_video: the rows of the name, ordered by chunk_index (then rowid)
RECURSIVE SortChunks(_)
SortChunks(rows) ==
    IF rows = {} THEN <<>>
    ELSE LET r == CHOOSE x \in rows : \A y \in rows :
                     \/ x.chunk_index < y.chunk_index
                     \/ (x.chunk_index = y.chunk_index /\ x.id <= y.id)
         IN  <<r>> \o SortChunks(rows \ {r})

get_chunks_by_video(chs, name) == SortChunks({r \in chs : r.video_name = name})

\* A plausible slip: the video row is deleted and its chunk rows are left behind.
db_delete_video_row_only(vids, chs, name, fails) ==
    IF fails
    THEN [ret |-> FALSE, videos |-> vids, chunks |-> chs, session |-> "active"]
    ELSE [ret |-> TRUE, videos |-> {r \in vids : r.video_name # name}, chunks |-> chs,
          session |-> "active"]

\* A plausible slip: the handler does not roll back, so the chunk rows deleted
\* before the failure are gone with the next commit.
db_delete_video_no_rollback(vids, chs, name, fails) ==
    IF fails
    THEN [ret |-> FALSE, videos |-> vids,
          chunks |-> {r \in chs : r.video_name # name}, session |-> "active"]
    ELSE [ret |-> TRUE,
          videos |-> {r \in vids : r.video_name # name},
          chunks |-> {r \in chs : r.video_name # name},
          session |-> "active"]

(***************************************************************************)
(* Database.delete_video: DELETE the chunk rows of the name, DELETE the    *)
(* video row, commit, return True.  An exception (fails) rolls both        *)
(* deletes back and returns False.                                         *)
(***************************************************************************)
db_delete_video(vids, chs, name, fails) ==
    IF fails
    THEN [ret |-> FALSE, videos |-> vids, chunks |-> chs, session |-> "active"]
    ELSE [ret |-> TRUE,
          videos |-> {r \in vids : r.video_name # name},
          chunks |-> {r \in chs : r.video_name # name},
          session |-> "active"]

-----------------------------------------------------------------------------
(* Src/vector_store.py *)

\* config.CHUNK_SIZE and config.CHUNK_OVERLAP, in characters, and
\* config.TOP_K_RESULTS: read from the environment, small values taken here
CHUNK_SIZE == 2
CHUNK_OVERLAP == 1
TOP_K_RESULTS == 2

(***************************************************************************)
(* The characters Python's str.strip() removes.  A character that has no   *)
(* literal here is written as its code point.                              *)
(***************************************************************************)
Whitespace ==
    {" ", "\t", "\n", "\r", "\f", "U+000B", "U+001C", "U+001D", "U+001E", "U+001F",
     "U+0085", "U+00A0", "U+1680", "U+2000", "U+2001", "U+2002", "U+2003", "U+2004",
     "U+2005", "U+2006", "U+2007", "U+2008", "U+2009", "U+200A", "U+2028", "U+2029",
     "U+202F", "U+205F", "U+3000"}

IsSpace(c) == c \in Whitespace

\* text.strip() is empty
Blank(text) == \A i \in DOMAIN text : IsSpace(text[i])

\* text.strip()
Strip(text) ==
    LET keep == {i \in DOMAIN text : ~IsSpace(text[i])}
    IN  IF keep = {} THEN <<>>
        ELSE SubSeq(text, CHOOSE i \in keep : \A j \in keep : i <= j,
                          CHOOSE i \in keep : \A j \in keep : j <= i)

\* the separators RecursiveCharacterTextSplitter tries, coarsest first
Separators == << <<"\n", "\n">>, <<"\n">>, <<" ">>, <<>> >>

\* the positions of text at which the separator sep begins
Found(text, sep) ==
    {i \in 1..Len(text) :
        /\ i + Len(sep) - 1 <= Len(text)
        /\ SubSeq(text, i, i + Len(sep) - 1) = sep}

\* the first separator of the list that occurs in the text (the empty one
\* always does), and the separators after it
RECURSIVE pick_separator(_, _, _)
pick_separator(text, separators, i) ==
    IF i > Len(separators)
    THEN [separator |-> separators[Len(separators)], new_separators |-> <<>>]
    ELSE IF separators[i] = <<>>
    THEN [separator |-> <<>>, new_separators |-> <<>>]
    ELSE IF Found(text, separators[i]) # {}
    THEN [separator |-> separators[i],
          new_separators |-> SubSeq(separators, i + 1, Len(separators))]
    ELSE pick_separator(text, separators, i + 1)

\* re.split(separator, text): the pieces between the matches, left to right
RECURSIVE re_split(_, _)
re_split(text, sep) ==
    IF Found(text, sep) = {} THEN <<text>>
    ELSE LET i == CHOOSE i \in Found(text, sep) : \A j \in Found(text, sep) : i <= j
         IN  <<SubSeq(text, 1, i - 1)>>
             \o re_split(SubSeq(text, i + Len(sep), Len(text)), sep)

\* _split_text_with_regex, keep_separator = True: every piece but the first
\* starts with the separator; the empty separator gives the characters;
\* empty pieces are dropped
split_text_with_regex(text, sep) ==
    LET raw == IF sep = <<>> THEN [i \in 1..Len(text) |-> <<text[i]>>]
               ELSE LET p == re_split(text, sep)
                    IN  [k \in 1..Len(p) |-> IF k = 1 THEN p[1] ELSE sep \o p[k]]
    IN  SelectSeq(raw, LAMBDA piece : piece # <<>>)

RECURSIVE Concat(_)
Concat(pieces) == IF pieces = <<>> THEN <<>> ELSE Head(pieces) \o Concat(Tail(pieces))

\* _join_docs with the empty separator: joined and stripped (<<>> stands for None)
join_docs(current_doc) == Strip(Concat(current_doc))

\* the while loop of _merge_splits: pieces leave the front of current_doc until
\* the overlap is small enough and the next piece of length len fits
RECURSIVE shrink(_, _, _)
shrink(current_doc, total, len) ==
    IF total > CHUNK_OVERLAP \/ (total + len > CHUNK_SIZE /\ total > 0)
    THEN shrink(Tail(current_doc), total - Len(Head(current_doc)), len)
    ELSE [current_doc |-> current_doc, total |-> total]

\* _merge_splits(splits, ""): the pieces are packed into documents of at most
\* CHUNK_SIZE characters, each starting with the tail of the one before
\* docs with the joined current_doc appended, unless it joins to nothing
emit(docs, current_doc) ==
    LET doc == join_docs(current_doc)
    IN  IF doc = <<>> THEN docs ELSE Append(docs, doc)

RECURSIVE merge_splits(_, _, _, _)
merge_splits(splits, docs, current_doc, total) ==
    IF splits = <<>> THEN emit(docs, current_doc)
    ELSE LET d    == Head(splits)
             full == total + Len(d) > CHUNK_SIZE /\ current_doc # <<>>
             r    == IF full
                     THEN [docs |-> emit(docs, current_doc)]
                          @@ shrink(current_doc, total, Len(d))
                     ELSE [docs |-> docs, current_doc |-> current_doc, total |-> total]
         IN  merge_splits(Tail(splits), r.docs, Append(r.current_doc, d),
                          r.total + Len(d))

\* final_chunks with the merged good splits appended, if there are any
flush(good_splits, final_chunks) ==
    IF good_splits = <<>> THEN final_chunks
    ELSE final_chunks \o merge_splits(good_splits, <<>>, <<>>, 0)

(***************************************************************************)
(* RecursiveCharacterTextSplitter._split_text(text, separators): the text  *)
(* is cut at the first separator that occurs in it; pieces shorter than    *)
(* CHUNK_SIZE are gathered and merged, a longer piece is split again with  *)
(* the finer separators (or kept as it is when none is left).              *)
(***************************************************************************)
RECURSIVE split_text_with(_, _)
RECURSIVE split_loop(_, _, _, _)
split_loop(splits, good_splits, final_chunks, new_separators) ==
    IF splits = <<>> THEN flush(good_splits, final_chunks)
    ELSE LET s == Head(splits)
             n == IF Len(s) < CHUNK_SIZE
                  THEN [good_splits |-> Append(good_splits, s),
                        final_chunks |-> final_chunks]
                  ELSE [good_splits |-> <<>>,
                        final_chunks |->
                            flush(good_splits, final_chunks)
                            \o (IF new_separators = <<>> THEN <<s>>
                                ELSE split_text_with(s, new_separators))]
         IN  split_loop(Tail(splits), n.good_splits, n.final_chunks, new_separators)

split_text_with(text, separators) ==
    LET c == pick_separator(text, separators, 1)
    IN  split_loop(split_text_with_regex(text, c.separator), <<>>, <<>>,
                   c.new_separators)

\* self.text_splitter.split_text(text)
split_text(text) == split_text_with(text, Separators)

\* the (text, metadata) pairs of one transcript at position i of the input list
sub_chunk_docs(sub, transcript, i, video_name) ==
    [j \in 1..Len(sub) |->
       [text |-> sub[j], video_name |-> video_name,
        chunk_index |-> i, sub_chunk_index |-> j - 1,
        start_time |-> transcript.start_time,
        end_time |-> transcript.end_time,
        start_formatted |-> transcript.start_formatted,
        end_formatted |-> transcript.end_formatted]]

\* lines 64-82: a blank transcript is skipped, another one is split
transcript_docs(transcript, i, video_name) ==
    IF Blank(transcript.text) THEN <<>>
    ELSE sub_chunk_docs(split_text(transcript.text), transcript, i, video_name)

\* A plausible slip: the chunk index counts the transcripts that were kept, so
\* the position of a skipped transcript is given to the next one.
RECURSIVE all_docs_renumbered(_, _, _)
all_docs_renumbered(transcripts, i, video_name) ==
    IF transcripts = <<>> THEN <<>>
    ELSE IF Blank(Head(transcripts).text)
    THEN all_docs_renumbered(Tail(transcripts), i, video_name)
    ELSE transcript_docs(Head(transcripts), i, video_name)
         \o all_docs_renumbered(Tail(transcripts), i + 1, video_name)

\* lines 61-82: the texts and metadatas of all transcripts from position i on
RECURSIVE all_docs(_, _, _)
all_docs(transcripts, i, video_name) ==
    IF i >= Len(transcripts) THEN <<>>
    ELSE transcript_docs(transcripts[i + 1], i, video_name)
         \o all_docs(transcripts, i + 1, video_name)

\* the id of the next entry of the collection
NextEntryId(ents) ==
    IF ents = {} THEN 1
    ELSE (CHOOSE m \in {e.id : e \in ents} : \A e \in ents : e.id <= m) + 1

\* lines 84-100: nothing to add returns [] without touching the collection;
\* the rest is added as one batch, each text with its metadata under a new id
add_texts(ents, docs, fails) ==
    LET base == NextEntryId(ents)
        ids  == [k \in 1..Len(docs) |-> base + k - 1]
    IN  IF docs = <<>>
        THEN [raised |-> FALSE, ids |-> <<>>, entries |-> ents]
        ELSE IF fails
        THEN [raised |-> TRUE, ids |-> <<>>, entries |-> ents]
        ELSE [raised |-> FALSE, ids |-> ids,
              entries |-> ents \cup
                  {[f \in {"id"} |-> ids[k]] @@ docs[k] : k \in 1..Len(docs)}]

(***************************************************************************)
(* add_transcripts(transcripts, video_name): blank texts are skipped, the  *)
(* rest is split and added as one batch; nothing to add returns [] without *)
(* touching the collection; a failure of add_texts (fails) is re-raised.   *)
(***************************************************************************)
add_transcripts(ents, transcripts, video_name, fails) ==
    add_texts(ents, all_docs(transcripts, 0, video_name), fails)

\* a metadata video_name that is empty
EmptyName == <<"", "">>

\* get_all_video_names: the distinct non-empty video names of the collection;
\* when the read of the collection raises (fails), the empty list
get_all_video_names(ents, fails) ==
    IF fails THEN {}
    ELSE {e.video_name : e \in {x \in ents : x.video_name # EmptyName}}

\* A plausible slip: the emptiness test on the ids is missing, so a name the
\* store does not hold is reported as deleted.
delete_by_video_name_no_emptiness_test(ents, video_name, fails) ==
    LET hit == {e \in ents : e.video_name = video_name}
    IN  IF fails
        THEN [ret |-> FALSE, entries |-> ents]
        ELSE [ret |-> TRUE, entries |-> ents \ hit]

(***************************************************************************)
(* delete_by_video_name: the ids whose metadata video_name matches are     *)
(* deleted and True returned; no match, or an exception (fails), returns   *)
(* False.                                                                  *)
(***************************************************************************)
delete_by_video_name(ents, video_name, fails) ==
    LET hit == {e \in ents : e.video_name = video_name}
    IN  IF fails \/ hit = {}
        THEN [ret |-> FALSE, entries |-> ents]
        ELSE [ret |-> TRUE, entries |-> ents \ hit]

\* the entries Chroma's metadata filter {"video_name": name} lets through
filter_match(ents, video_name) == {e \in ents : e.video_name = video_name}

-----------------------------------------------------------------------------
(* Src/video_pipeline.py *)

(***************************************************************************)
(* The stores and directories one pipeline call works on are passed as a   *)
(* record st: videos, chunks, entries, scratch, inputFiles, finishedFiles. *)
(* io is what the outside world does during the call: io.stage names the   *)
(* operation that fails ("none": nothing fails), io.idx the chunk at which *)
(* it fails, io.partial whether a failed write (or move) leaves the file  *)
(* it wrote, and io.cleanupFails whether unlinking a scratch file fails:   *)
(* then io.locked says which files cannot be unlinked ("all", or "audio":  *)
(* the extracted <stem>.wav files) and io.before which files glob lists    *)
(* before the first of them.  io.stage = "names" is a failing read of the  *)
(* vector store's video names.  A call gives [st, ret, trace]: the state   *)
(* after it, what it returned ("True", "False", or "Raised" when an        *)
(* exception left it) and the stages it entered, in order.                 *)
(***************************************************************************)

\* the files of the scratch directory that cannot be unlinked
Locked(files, io) ==
    IF ~io.cleanupFails THEN {}
    ELSE IF io.locked = "all" THEN files
    ELSE {f \in files : f[2] = -1}

\* a set of files as a list
RECURSIVE Listed(_)
Listed(files) ==
    IF files = {} THEN <<>>
    ELSE LET f == CHOOSE f \in files : TRUE IN <<f>> \o Listed(files \ {f})

\* temp_dir.glob("*"): the directory lists its files in an order of its own;
\* the files of io.before come before the first locked one, the rest after
Glob(files, io) ==
    LET locked == Locked(files, io)
        first  == (files \ locked) \cap io.before
    IN  Listed(first) \o Listed(locked) \o Listed((files \ locked) \ first)

\* self.audio_extractor.cleanup()
cleanup_all(files, io) == cleanup(Glob(files, io), NoPath, Locked(files, io))

\* line 35: the video is known to both stores
already_processed(st, name, io) ==
    /\ video_exists(st.videos, name)
    /\ name \in get_all_video_names(st.entries, io.stage = "names")

\* A plausible slip: the handler logs, cleans up and re-raises.
except_handler_reraise(st, trace, io) ==
    [st    |-> [st EXCEPT !.scratch = cleanup_all(st.scratch, io)],
     ret   |-> "Raised",
     trace |-> trace \o <<"cleanup">>]

\* lines 106-114: log, cleanup (its own failure swallowed), return False
except_handler(st, trace, io) ==
    [st    |-> [st EXCEPT !.scratch = cleanup_all(st.scratch, io)],
     ret   |-> "False",
     trace |-> trace \o <<"cleanup">>]

\* lines 73-77: one chunk row per transcript, each committed on its own
RECURSIVE add_chunks(_, _, _, _, _)
add_chunks(chs, name, transcriptions, k, io) ==
    IF k > Len(transcriptions)
    THEN [raised |-> FALSE, chunks |-> chs]
    ELSE LET r == add_transcript_chunk(chs, name, transcriptions[k], 0,
                                       io.stage = "add_chunk" /\ io.idx = k - 1)
         IN  IF r.raised THEN [raised |-> TRUE, chunks |-> chs]
             ELSE add_chunks(r.chunks, name, transcriptions, k + 1, io)

\* lines 89-98: the free name in the finished directory, <<stem, k, suffix>>
\* (k = 0: the name as it is; k >= 1: "<stem>_<k><suffix>")
RECURSIVE free_name(_, _, _)
free_name(finished, name, k) ==
    IF <<name[1], k, name[2]>> \notin finished THEN <<name[1], k, name[2]>>
    ELSE free_name(finished, name, k + 1)

finished_path(finished, name) == free_name(finished, name, 0)

\* lines 89-103: relocate the source, clean the scratch directory, return True.
\* shutil.move that cannot rename copies the file and unlinks the source: a
\* failing move leaves nothing behind, or (io.partial) the copy next to the
\* source that could not be unlinked
relocate(st, name, trace, io) ==
    IF name \notin st.inputFiles
    THEN except_handler(st, trace \o <<"move">>, io)
    ELSE IF io.stage = "move"
    THEN except_handler(
             [st EXCEPT !.finishedFiles =
                 IF io.partial THEN @ \cup {finished_path(@, name)} ELSE @],
             trace \o <<"move">>, io)
    ELSE [st    |-> [st EXCEPT
                       !.inputFiles = @ \ {name},
                       !.finishedFiles = @ \cup {finished_path(@, name)},
                       !.scratch = cleanup_all(@, io)],
          ret   |-> "True",
          trace |-> trace \o <<"move", "cleanup">>]

\* lines 59-87: video row (unless it exists), chunk rows, embeddings
persist(st, name, audio_splits_chunks, transcriptions, trace, io) ==
    LET total_duration == audio_splits_chunks[Len(audio_splits_chunks)][3]
        av == IF video_exists(st.videos, name)
              THEN [raised |-> FALSE, videos |-> st.videos]
              ELSE add_video(st.videos, name, name, total_duration,
                             Len(transcriptions), io.stage = "add_video")
        s1 == [st EXCEPT !.videos = av.videos]
        ac == add_chunks(s1.chunks, name, transcriptions, 1, io)
        s2 == [s1 EXCEPT !.chunks = ac.chunks]
        at == add_transcripts(s2.entries, transcriptions, name, io.stage = "embed")
        s3 == [s2 EXCEPT !.entries = at.entries]
    IN  IF av.raised THEN except_handler(s1, trace \o <<"add_video">>, io)
        ELSE IF ac.raised
        THEN except_handler(s2, trace \o <<"add_video", "add_chunks">>, io)
        ELSE IF at.raised
        THEN except_handler(s3, trace \o <<"add_video", "add_chunks", "embed">>, io)
        ELSE relocate(s3, name, trace \o <<"add_video", "add_chunks", "embed">>, io)

\* lines 44-57: split, transcribe, and the two early returns
split_and_transcribe(st, name, lenMs, L, texts, io) ==
    LET sp == split_audio(name[1], lenMs, L, io)
        s1 == [st EXCEPT !.scratch = @ \cup sp.written]
        tr == transcribe_all_chunks(sp.value, texts, io)
    IN  IF sp.none \/ sp.value = <<>>
        THEN [st |-> s1, ret |-> "False", trace |-> <<"extract", "split">>]
        ELSE IF tr.raised
        THEN except_handler(s1, <<"extract", "split", "transcribe">>, io)
        ELSE IF tr.value = <<>>
        THEN [st |-> s1, ret |-> "False",
              trace |-> <<"extract", "split", "transcribe">>]
        ELSE persist(s1, name, sp.value, tr.value,
                     <<"extract", "split", "transcribe">>, io)

\* A plausible slip: a video that is already processed counts as a success.
process_video_skip_true(st, name, lenMs, L, texts, io) ==
    IF already_processed(st, name, io)
    THEN [st |-> st, ret |-> "True", trace |-> <<>>]
    ELSE LET ex == extract_audio(st.inputFiles, name, io)
             s1 == [st EXCEPT !.scratch = @ \cup ex.written]
         IN  IF ex.raised THEN except_handler(s1, <<"extract">>, io)
             ELSE split_and_transcribe(s1, name, lenMs, L, texts, io)

\* process_video(video_path), video_path = <input directory>/name
process_video(st, name, lenMs, L, texts, io) ==
    IF already_processed(st, name, io)
    THEN [st |-> st, ret |-> "False", trace |-> <<>>]
    ELSE LET ex == extract_audio(st.inputFiles, name, io)
             s1 == [st EXCEPT !.scratch = @ \cup ex.written]
         IN  IF ex.raised THEN except_handler(s1, <<"extract">>, io)
             ELSE split_and_transcribe(s1, name, lenMs, L, texts, io)

\* A plausible slip: a failed metadata deletion returns at once, before the
\* vector store is asked to delete.
pipeline_delete_video_early_return(st, name, dbFails, vsFails) ==
    LET found == video_exists(st.videos, name)
        db == IF found THEN db_delete_video(st.videos, st.chunks, name, dbFails)
              ELSE [ret |-> FALSE, videos |-> st.videos, chunks |-> st.chunks]
        vs == IF found /\ ~db.ret THEN [ret |-> FALSE, entries |-> st.entries]
              ELSE delete_by_video_name(st.entries, name, vsFails)
    IN  [st  |-> [st EXCEPT !.videos = db.videos, !.chunks = db.chunks,
                            !.entries = vs.entries],
         ret |-> IF ~found THEN "Raised"
                 ELSE IF db.ret /\ vs.ret THEN "True" ELSE "False",
         db_attempted |-> found, db_ret |-> db.ret,
         vs_attempted |-> ~(found /\ ~db.ret), vs_ret |-> vs.ret]

(***************************************************************************)
(* VideoProcessor.delete_video(video_name).  db_sucess is assigned only    *)
(* when the metadata store has the video; the vector-store deletion runs   *)
(* next in every case; reading the unassigned db_sucess raises             *)
(* UnboundLocalError.  dbFails / vsFails: the store's delete fails.          *)
(***************************************************************************)
pipeline_delete_video(st, name, dbFails, vsFails) ==
    LET found == video_exists(st.videos, name)
        db == IF found THEN db_delete_video(st.videos, st.chunks, name, dbFails)
              ELSE [ret |-> FALSE, videos |-> st.videos, chunks |-> st.chunks]
        vs == delete_by_video_name(st.entries, name, vsFails)
        s1 == [st EXCEPT !.videos = db.videos, !.chunks = db.chunks,
                         !.entries = vs.entries]
    IN  [st  |-> s1,
         ret |-> IF ~found THEN "Raised"
                 ELSE IF db.ret /\ vs.ret THEN "True" ELSE "False",
         db_attempted |-> found, db_ret |-> db.ret,
         vs_attempted |-> TRUE, vs_ret |-> vs.ret]

\* line 158: the video is known to both stores when its turn comes, as far as
\* the read of the vector store tells
folder_skip(st, name, fails) ==
    video_exists(st.videos, name) /\ name \in get_all_video_names(st.entries, fails)

\* lines 146-153: the statistics before the first video
new_stats(total) ==
    [total |-> total, sucess |-> 0, failed |-> 0, skipped |-> 0,
     processed_videos |-> <<>>, failed_videos |-> <<>>]

\* A plausible slip: a skipped video goes on to the next one without being
\* counted.
RECURSIVE folder_loop_skip_uncounted(_, _, _, _, _, _)
folder_loop_skip_uncounted(st, paths, k, acc, inp, L) ==
    IF k > Len(paths) THEN [st |-> st, acc |-> acc]
    ELSE LET name == paths[k]
             here == video_exists(st.videos, name)
                     /\ \E e \in st.entries : e.video_name = name
             skip == folder_skip(st, name, inp[name].namesFail)
             a1   == [acc EXCEPT !.present = Append(@, here),
                                 !.skips = Append(@, skip)]
             r    == IF skip THEN [st |-> st, ret |-> "Skipped"]
                     ELSE process_video(st, name, inp[name].lenMs, L,
                                        inp[name].texts, inp[name].io)
             a2   == [a1 EXCEPT !.calls = Append(@, name)]
             a3   == IF skip
                     THEN a1
                     ELSE IF r.ret = "True"
                     THEN [a2 EXCEPT !.stats.sucess = @ + 1,
                                     !.stats.processed_videos = Append(@, name)]
                     ELSE [a2 EXCEPT !.stats.failed = @ + 1,
                                     !.stats.failed_videos = Append(@, name)]
         IN  folder_loop_skip_uncounted(r.st, paths, k + 1, a3, inp, L)

(***************************************************************************)
(* lines 156-170: the loop of process_folder over the listed paths, from   *)
(* position k on.  inp gives, for each video, the length of its audio, the *)
(* texts the service returns and what fails during its run.  acc holds the *)
(* statistics and three records of what happened: present (for each turn,  *)
(* whether both stores held the name at that moment), skips (for each      *)
(* turn, whether the check at line 158 skipped it) and calls (the names    *)
(* process_video was invoked for, in order).                               *)
(***************************************************************************)
RECURSIVE folder_loop(_, _, _, _, _, _)
folder_loop(st, paths, k, acc, inp, L) ==
    IF k > Len(paths) THEN [st |-> st, acc |-> acc]
    ELSE LET name == paths[k]
             here == video_exists(st.videos, name)
                     /\ \E e \in st.entries : e.video_name = name
             skip == folder_skip(st, name, inp[name].namesFail)
             a1   == [acc EXCEPT !.present = Append(@, here),
                                 !.skips = Append(@, skip)]
             r    == IF skip THEN [st |-> st, ret |-> "Skipped"]
                     ELSE process_video(st, name, inp[name].lenMs, L,
                                        inp[name].texts, inp[name].io)
             a2   == [a1 EXCEPT !.calls = Append(@, name)]
             a3   == IF skip
                     THEN [a1 EXCEPT !.stats.skipped = @ + 1]
                     ELSE IF r.ret = "True"
                     THEN [a2 EXCEPT !.stats.sucess = @ + 1,
                                     !.stats.processed_videos = Append(@, name)]
                     ELSE [a2 EXCEPT !.stats.failed = @ + 1,
                                     !.stats.failed_videos = Append(@, name)]
         IN  folder_loop(r.st, paths, k + 1, a3, inp, L)

\* VideoProcessor.process_folder over the listing paths of the folder
process_folder(st, paths, inp, L) ==
    IF paths = <<>>
    THEN [st |-> st,
          acc |-> [stats |-> new_stats(0), present |-> <<>>, skips |-> <<>>,
                   calls |-> <<>>]]
    ELSE folder_loop(st, paths, 1,
                     [stats |-> new_stats(Len(paths)), present |-> <<>>,
                      skips |-> <<>>, calls |-> <<>>],
                     inp, L)

-----------------------------------------------------------------------------
(* Src/rag_chat.py *)

\* the length at which a source's text preview is cut
PREVIEW_LEN == 150

\* doc.page_content[:150] + '...' if len(doc.page_content) > 150 else doc.page_content
text_preview(text) ==
    IF Len(text) > PREVIEW_LEN
    THEN SubSeq(text, 1, PREVIEW_LEN) \o <<".", ".", ".">>
    ELSE text

\* the source summary built from one retrieved document
source_of(doc) ==
    [video_name |-> doc.video_name, start_time |-> doc.start_formatted,
     end_time |-> doc.end_formatted, text_preview |-> text_preview(doc.text)]

(***************************************************************************)
(* What a retriever with search_kwargs k can return from the candidate     *)
(* entries: min(k, number of candidates) distinct entries, in the order    *)
(* the similarity ranking gives them, which is left open.                  *)
(***************************************************************************)
Retrievals(cands, k) ==
    LET m == Min(k, Cardinality(cands))
    IN  {d \in [1..m -> cands] : \A i, j \in 1..m : i # j => d[i] # d[j]}

\* A plausible slip: the handler logs the error and lets it go on to the caller.
answer_with_sources_reraise(history, question, docs, answer, failure) ==
    IF failure # "none"
    THEN [history |-> history, ret |-> "Raised", answer |-> "", sources |-> <<>>]
    ELSE [history |-> history \o << <<"human", question>>, <<"ai", answer>> >>,
          ret |-> "Answer", answer |-> answer,
          sources |-> [i \in 1..Len(docs) |-> source_of(docs[i])]]

\* A plausible slip: the question is put into the history before the chain is
\* invoked, so a failed generation leaves it there.
answer_with_sources_question_first(history, question, docs, answer, failure) ==
    IF failure = "retrieve"
    THEN [history |-> history, ret |-> "Error", answer |-> "Sorry", sources |-> <<>>]
    ELSE IF failure = "generate"
    THEN [history |-> history \o << <<"human", question>> >>, ret |-> "Error",
          answer |-> "Sorry", sources |-> <<>>]
    ELSE [history |-> history \o << <<"human", question>>, <<"ai", answer>> >>,
          ret |-> "Answer", answer |-> answer,
          sources |-> [i \in 1..Len(docs) |-> source_of(docs[i])]]

(***************************************************************************)
(* The body shared by ask and ask_with_video_filter once the documents     *)
(* are retrieved: generate, append question and answer to the history,     *)
(* format the sources.  failure "retrieve" or "generate": that call        *)
(* raises, and the handler returns the error answer with no sources and    *)
(* leaves the history alone.                                               *)
(***************************************************************************)
answer_with_sources(history, question, docs, answer, failure) ==
    IF failure # "none"
    THEN [history |-> history, ret |-> "Error", answer |-> "Sorry",
          sources |-> <<>>]
    ELSE [history |-> history \o << <<"human", question>>, <<"ai", answer>> >>,
          ret |-> "Answer", answer |-> answer,
          sources |-> [i \in 1..Len(docs) |-> source_of(docs[i])]]

\* the candidates of ask: the retriever of get_retriever(), without a filter
ask_candidates(ents) == ents

\* A plausible slip: the filtered retriever built without its filter.
filtered_candidates_unfiltered(ents, video_name) == ents

\* the candidates of ask_with_video_filter: search_kwargs filter {"video_name": video_name}
filtered_candidates(ents, video_name) == filter_match(ents, video_name)

-----------------------------------------------------------------------------
(* The inputs the operations are called with *)

Videos == {<<"a", ".mp4">>, <<"b", ".mp4">>}

\* audio lengths in milliseconds: no audio at all, and 1500 s
Durations == {0, 1500 * 1000}

\* what the speech-to-text service answers, chunk after chunk
TextLists == {<< <<" ">>, <<"h", "i", "!">> >>}

NoFailure == [stage |-> "none", idx |-> 0, partial |-> FALSE, cleanupFails |-> FALSE,
              locked |-> "all", before |-> {}]

\* io with the unlinking working, and with no file that can be unlinked
Unlinking(io) == {io, [io EXCEPT !.cleanupFails = TRUE]}

\* io with the extracted audio alone locked
AudioLocked(io) == {[io EXCEPT !.cleanupFails = TRUE, !.locked = "audio"]}

\* the orders glob can list the scratch directory in during a call for name,
\* as far as cleanup tells them apart: every set of files that can be unlinked
\* may be what comes before the first file that cannot
GlobOrders(files, name, lenMs, L, io) ==
    IF io.cleanupFails /\ io.locked = "audio"
    THEN SUBSET {f \in files \cup {ChunkFile(name[1], i) :
                                       i \in 0..(num_chunks(lenMs, L) - 1)} :
                   f[2] # -1}
    ELSE {{}}

\* what can go wrong during one process_video call: one operation fails (the
\* first failure ends the run, so one is enough), and unlinking may fail too
PipelineIOs ==
    {[NoFailure EXCEPT !.stage = s] :
        s \in {"names", "load", "add_video", "embed", "move"}}
    \cup {[NoFailure EXCEPT !.stage = "move", !.partial = TRUE]}
    \cup Unlinking(NoFailure) \cup AudioLocked(NoFailure)
    \cup UNION {Unlinking([NoFailure EXCEPT !.stage = "extract", !.partial = p]) :
                  p \in BOOLEAN}
    \cup {[NoFailure EXCEPT !.stage = "export", !.idx = i] : i \in 0..MaxFailIdx}
    \cup UNION {Unlinking([NoFailure EXCEPT !.stage = "transcribe", !.idx = i]) :
                  i \in 0..MaxFailIdx}
    \cup {[NoFailure EXCEPT !.stage = "add_chunk", !.idx = i] : i \in 0..MaxFailIdx}

\* the transcripts the store-level operations are given
Transcript(i, text) ==
    [r \in {"chunk_index", "audio_name"} |->
        IF r = "chunk_index" THEN i ELSE <<"a", i>>]
    @@ transcribe_chunk(text, i * 600 * 1000, (i + 1) * 600 * 1000)

Store == [videos |-> videos, chunks |-> chunks, entries |-> entries,
          scratch |-> scratch, inputFiles |-> inputFiles,
          finishedFiles |-> finishedFiles]

SetStore(st) ==
    /\ videos' = st.videos
    /\ chunks' = st.chunks
    /\ entries' = st.entries
    /\ scratch' = st.scratch
    /\ inputFiles' = st.inputFiles
    /\ finishedFiles' = st.finishedFiles

(***************************************************************************)
(* The record of the last operation: op and name (what was called, on      *)
(* which video), ret (what it returned: "True", "False", "Raised" when an  *)
(* exception left it, or the kind of value), trace (the stages it          *)
(* entered), arg (its numeric argument or result), value (the list it      *)
(* returned or, for process_video, the audio chunks it cut), stage and     *)
(* unlinkFails (what the outside world did to it), dbRet and vsRet (what   *)
(* the two stores' deletions returned to it, "NotCalled" when not called). *)
(***************************************************************************)
Call(op, name, ret, trace, arg, value, stage, unlinkFails, dbRet, vsRet) ==
    [op |-> op, name |-> name, ret |-> ret, trace |-> trace, arg |-> arg,
     value |-> value, stage |-> stage, unlinkFails |-> unlinkFails,
     dbRet |-> dbRet, vsRet |-> vsRet]

StoreCall(op, name, ret, arg, value) ==
    Call(op, name, ret, <<>>, arg, value, "none", FALSE, "NotCalled", "NotCalled")

NoCall == StoreCall("none", <<"", "">>, "None", 0, <<>>)

Str(b) == IF b THEN "True" ELSE "False"

-----------------------------------------------------------------------------
(* The operations *)

\* VideoProcessor.process_video(input directory / name)
ProcessVideo ==
    \E name \in Videos, lenMs \in Durations, texts \in TextLists, f \in PipelineIOs :
      \E before \in GlobOrders(scratch, name, lenMs, chunk_length, f) :
        LET io == [f EXCEPT !.before = before]
            r  == process_video(Store, name, lenMs, chunk_length, texts, io)
        IN  /\ SetStore(r.st)
            /\ call' = Call("process_video", name, r.ret, r.trace, lenMs,
                            IF "split" \in Range(r.trace)
                            THEN split_audio(name[1], lenMs, chunk_length, io).value
                            ELSE <<>>,
                            io.stage, io.cleanupFails, "NotCalled", "NotCalled")
            /\ UNCHANGED <<session, chunk_length, chat_history>>

\* VideoProcessor.delete_video(name)
DeleteVideo ==
    \E name \in Videos, dbFails \in BOOLEAN, vsFails \in BOOLEAN :
        LET r == pipeline_delete_video(Store, name, dbFails, vsFails)
        IN  /\ SetStore(r.st)
            /\ call' = Call("delete_video", name, r.ret, <<>>, 0, <<>>, "none", FALSE,
                            IF r.db_attempted THEN Str(r.db_ret) ELSE "NotCalled",
                            IF r.vs_attempted THEN Str(r.vs_ret) ELSE "NotCalled")
            /\ UNCHANGED <<session, chunk_length, chat_history>>

\* Database.add_video(name, ...)
DbAddVideo ==
    \E name \in Videos, fails \in BOOLEAN :
        LET r == add_video(videos, name, name, 1500 * 1000, 3,
                           fails \/ session = "inactive")
        IN  /\ NextId(videos) <= MaxId
            /\ videos' = r.videos
            /\ session' = r.session
            /\ call' = Call("add_video", name, IF r.raised THEN "Raised" ELSE "Id",
                            <<>>, r.id, <<>>, IF fails THEN "database" ELSE "none",
                            FALSE, "NotCalled", "NotCalled")
            /\ UNCHANGED <<chunk_length, chunks, entries, scratch, inputFiles,
                           finishedFiles, chat_history>>

\* Database.add_transcript_chunk(name, chunk_data)
DbAddTranscriptChunk ==
    \E name \in Videos, i \in 0..1, vector_id \in 0..1, fails \in BOOLEAN :
        /\ Cardinality(chunks) < MaxChunkRows
        /\ NextId(chunks) <= MaxId
        /\ LET r == add_transcript_chunk(chunks, name, Transcript(i, <<"h", "i">>),
                                         vector_id, fails \/ session = "inactive")
           IN  /\ chunks' = r.chunks
               /\ session' = r.session
               /\ call' = StoreCall("add_transcript_chunk", name,
                                    IF r.raised THEN "Raised" ELSE "Id", r.id, <<>>)
        /\ UNCHANGED <<chunk_length, videos, entries, scratch, inputFiles,
                       finishedFiles, chat_history>>

\* Database.update_chunk_vector_id(chunk_id, vector_id)
DbUpdateChunkVectorId ==
    \E chunk_id \in 1..MaxId, vector_id \in {1}, fails \in BOOLEAN :
        LET r == update_chunk_vector_id(chunks, chunk_id, vector_id,
                                        fails \/ session = "inactive")
        IN  /\ chunks' = r.chunks
            /\ session' = r.session
            /\ call' = Call("update_chunk_vector_id", <<"", "">>, "None", <<>>,
                            chunk_id, <<>>,
                            IF fails \/ session = "inactive" THEN "database" ELSE "none",
                            FALSE, "NotCalled", "NotCalled")
            /\ UNCHANGED <<chunk_length, videos, entries, scratch, inputFiles,
                           finishedFiles, chat_history>>

\* Database.delete_video(name)
DbDeleteVideo ==
    \E name \in Videos, fails \in BOOLEAN :
        LET r == db_delete_video(videos, chunks, name, fails \/ session = "inactive")
        IN  /\ videos' = r.videos
            /\ session' = r.session
            /\ chunks' = r.chunks
            /\ call' = Call("db_delete_video", name, Str(r.ret), <<>>,
                            Cardinality(videos \ r.videos) + Cardinality(chunks \ r.chunks),
                            <<>>,
                            IF fails \/ session = "inactive" THEN "database" ELSE "none",
                            FALSE, Str(r.ret), "NotCalled")
            /\ UNCHANGED <<chunk_length, entries, scratch, inputFiles,
                           finishedFiles, chat_history>>

\* VectorStore.add_transcripts([transcript], name)
VsAddTranscripts ==
    \E name \in Videos, text \in {<<" ">>, <<"h", "i">>}, fails \in BOOLEAN :
        LET r == add_transcripts(entries, <<Transcript(0, text)>>, name, fails)
        IN  /\ Cardinality(r.entries) <= MaxEntries
            /\ NextEntryId(entries) <= MaxId
            /\ entries' = r.entries
            /\ call' = StoreCall("add_transcripts", name,
                                 IF r.raised THEN "Raised" ELSE "Ids", Len(r.ids), r.ids)
            /\ UNCHANGED <<session, chunk_length, videos, chunks, scratch, inputFiles,
                           finishedFiles, chat_history>>

\* results['ids']: the ids a lookup returned, in ascending order
IdsInOrder(S) ==
    [k \in 1..Cardinality(S) |-> CHOOSE i \in S : Cardinality({j \in S : j <= i}) = k]

\* VectorStore.delete_by_video_name(name)
VsDeleteByVideoName ==
    \E name \in Videos \cup {<<"c", ".mp4">>}, fails \in BOOLEAN :
        LET r == delete_by_video_name(entries, name, fails)
        IN  /\ entries' = r.entries
            /\ call' = Call("delete_by_video_name", name, Str(r.ret), <<>>,
                            Cardinality(entries \ r.entries),
                            IdsInOrder({e.id : e \in entries \ r.entries}),
                            IF fails THEN "vector_store" ELSE "none", FALSE,
                            "NotCalled", "NotCalled")
            /\ UNCHANGED <<session, chunk_length, videos, chunks, scratch, inputFiles,
                           finishedFiles, chat_history>>

-----------------------------------------------------------------------------
(* The stores an operation may find: what earlier store-level calls, made  *)
(* for the names of a sequence in its order, have left behind.             *)

RECURSIVE seed_videos(_, _)
seed_videos(names, vids) ==
    IF names = <<>> THEN vids
    ELSE seed_videos(Tail(names),
                     add_video(vids, Head(names), Head(names), 1500 * 1000, 3,
                               FALSE).videos)

RECURSIVE seed_chunks(_, _)
seed_chunks(names, chs) ==
    IF names = <<>> THEN chs
    ELSE LET i == Cardinality({r \in chs : r.video_name = Head(names)})
         IN  seed_chunks(Tail(names),
                         add_transcript_chunk(chs, Head(names),
                                              Transcript(i, <<"h", "i">>),
                                              0, FALSE).chunks)

RECURSIVE seed_entries(_, _)
seed_entries(names, ents) ==
    IF names = <<>> THEN ents
    ELSE seed_entries(Tail(names),
                      add_transcripts(ents,
                                      <<Transcript(0, <<" ">>),
                                        Transcript(1, <<"h", "i", "!">>)>>,
                                      Head(names), FALSE).entries)

VideoA == <<"a", ".mp4">>
VideoB == <<"b", ".mp4">>

SeedVideoSeqs == {<<>>, <<VideoA>>, <<VideoB>>, <<VideoA, VideoB>>, <<VideoB, VideoA>>}
SeedChunkSeqs == {<<>>, <<VideoA>>, <<VideoB>>, <<VideoA, VideoA>>, <<VideoA, VideoB>>}
SeedEntrySeqs == {<<>>, <<VideoA>>, <<VideoB>>, <<VideoA, VideoB>>}

InitStores ==
    /\ chunk_length = 600
    /\ videos \in {seed_videos(ns, {}) : ns \in SeedVideoSeqs}
    /\ chunks \in {seed_chunks(ns, {}) : ns \in SeedChunkSeqs}
    /\ entries \in {seed_entries(ns, {}) : ns \in SeedEntrySeqs}
    /\ scratch = {}
    /\ inputFiles = Videos
    /\ finishedFiles = {}
    /\ chat_history = <<>>
    /\ session = "active"
    /\ call = NoCall

\* the stores process_video may find: each video in none, in one or in both of
\* the metadata store and the vector store; the metadata store holds a chunk
\* row for each video it knows
PipelineVideoSeqs == {<<>>, <<VideoA>>, <<VideoA, VideoB>>}
PipelineEntrySeqs == {<<>>, <<VideoA>>, <<VideoA, VideoB>>}

InitPipeline ==
    /\ chunk_length = 600
    /\ \E ns \in PipelineVideoSeqs :
          /\ videos = seed_videos(ns, {})
          /\ chunks = seed_chunks(ns, {})
    /\ entries \in {seed_entries(ns, {}) : ns \in PipelineEntrySeqs}
    /\ scratch = {}
    /\ inputFiles = Videos
    /\ finishedFiles = {}
    /\ chat_history = <<>>
    /\ session = "active"
    /\ call = NoCall

\* the state after construction over empty stores
Init ==
    /\ chunk_length = 600
    /\ videos = {}
    /\ chunks = {}
    /\ entries = {}
    /\ scratch = {}
    /\ inputFiles = Videos
    /\ finishedFiles = {}
    /\ chat_history = <<>>
    /\ session = "active"
    /\ call = NoCall

-----------------------------------------------------------------------------
(* The pipeline's process_video over the stores it may find *)

Next == ProcessVideo

Spec == InitPipeline /\ [][Next]_vars

-----------------------------------------------------------------------------
(* The pipeline's delete_video over the stores it may find *)

NextDelete == DeleteVideo

SpecDelete == InitStores /\ [][NextDelete]_vars

-----------------------------------------------------------------------------
(* The pipeline's process_video on videos without speech: the service      *)
(* answers every chunk with a blank text and no operation fails.           *)

SilentTextLists == {<< <<" ">> >>, << <<>>, <<"\r", "\n">> >>}

\* VideoProcessor.process_video(input directory / name), a silent video
ProcessSilentVideo ==
    \E name \in Videos, lenMs \in Durations, texts \in SilentTextLists,
       c \in BOOLEAN :
        LET io == [NoFailure EXCEPT !.cleanupFails = c]
            r  == process_video(Store, name, lenMs, chunk_length, texts, io)
        IN  /\ SetStore(r.st)
            /\ call' = Call("process_video", name, r.ret, r.trace, lenMs,
                            IF "split" \in Range(r.trace)
                            THEN split_audio(name[1], lenMs, chunk_length, io).value
                            ELSE <<>>,
                            io.stage, io.cleanupFails, "NotCalled", "NotCalled")
            /\ UNCHANGED <<session, chunk_length, chat_history>>

NextSilent == ProcessSilentVideo

SpecSilent == InitStores /\ [][NextSilent]_vars

-----------------------------------------------------------------------------
(* The pipeline's process_folder over the stores it may find *)

\* the orders in which a folder holding some of the input files may be listed
Listings(files) ==
    {<<>>} \cup {<<v>> : v \in files}
    \cup {p \in {<<v, w>> : v \in files, w \in files} : p[1] # p[2]}

\* what one video of the folder brings: an audio of no length, a 1500 s audio,
\* a file whose audio cannot be extracted, or a turn at which the read of the
\* vector store's video names fails
FolderInputs ==
    {[lenMs |-> d, texts |-> t, io |-> NoFailure, namesFail |-> FALSE] :
        d \in Durations, t \in TextLists}
    \cup {[lenMs |-> 1500 * 1000, texts |-> t, namesFail |-> FALSE,
           io |-> [NoFailure EXCEPT !.stage = "extract"]] : t \in TextLists}
    \cup {[lenMs |-> 1500 * 1000, texts |-> t, namesFail |-> TRUE,
           io |-> NoFailure] : t \in TextLists}

\* VideoProcessor.process_folder(folder)
ProcessFolder ==
    \E paths \in Listings(inputFiles), inp \in [Videos -> FolderInputs] :
        \E r \in {process_folder(Store, paths, inp, chunk_length)} :
            /\ SetStore(r.st)
            /\ call' = Call("process_folder", <<"", "">>, "Stats", <<>>, Len(paths),
                            [listing |-> paths, present |-> r.acc.present,
                             skips |-> r.acc.skips, calls |-> r.acc.calls,
                             stats |-> r.acc.stats,
                             namesFail |-> [k \in 1..Len(paths) |->
                                              inp[paths[k]].namesFail]],
                            "none", FALSE, "NotCalled", "NotCalled")
            /\ UNCHANGED <<session, chunk_length, chat_history>>

NextFolder == ProcessFolder

SpecFolder == InitStores /\ [][NextFolder]_vars

-----------------------------------------------------------------------------
(* The metadata store on its own *)

NextDb ==
    \/ DbAddVideo
    \/ DbAddTranscriptChunk
    \/ DbUpdateChunkVectorId
    \/ DbDeleteVideo

SpecDb == Init /\ [][NextDb]_vars

-----------------------------------------------------------------------------
(* The vector store on its own *)

NextVsDelete ==
    \/ VsAddTranscripts
    \/ VsDeleteByVideoName

SpecVsDelete == Init /\ [][NextVsDelete]_vars

-----------------------------------------------------------------------------
(* Audio splitting on its own: split_audio applied to audios of every      *)
(* length up to MaxAudioMs under every chunk length up to MaxChunkLen.     *)
(* The initial state holds the extracted audio (call.op = "audio", its     *)
(* length in call.arg); the one step splits it.                            *)

SplitIOs == {NoFailure, [NoFailure EXCEPT !.stage = "load"]}
            \cup {[NoFailure EXCEPT !.stage = "export", !.idx = i, !.partial = p] :
                    i \in 0..MaxFailIdx, p \in BOOLEAN}

\* AudioExtractor.split_audio(<scratch>/a.wav)
SplitAudio ==
    \E io \in SplitIOs :
        LET lenMs == call.arg
            r == split_audio("a", lenMs, chunk_length, io)
        IN  /\ call.op = "audio"
            /\ scratch' = {AudioFile("a")} \cup r.written
            /\ call' = Call("split_audio", <<"a", ".wav">>,
                            IF r.none THEN "None" ELSE "List", <<>>, lenMs, r.value,
                            io.stage, FALSE, "NotCalled", "NotCalled")
            /\ UNCHANGED <<session, chunk_length, videos, chunks, entries, inputFiles,
                           finishedFiles, chat_history>>

InitSplit ==
    /\ chunk_length \in 1..MaxChunkLen
    /\ videos = {}
    /\ chunks = {}
    /\ entries = {}
    /\ scratch = {AudioFile("a")}
    /\ inputFiles = Videos
    /\ finishedFiles = {}
    /\ chat_history = <<>>
    /\ session = "active"
    /\ call \in {StoreCall("audio", <<"a", ".wav">>, "None", lenMs, <<>>) :
                    lenMs \in 0..MaxAudioMs}

NextSplit == SplitAudio

SpecSplit == InitSplit /\ [][NextSplit]_vars

-----------------------------------------------------------------------------
(* Transcription on its own: transcribe_all_chunks applied to the list     *)
(* split_audio returns for the extracted audio, as process_video does.     *)
(* The initial states are those of the splitting specification; the one    *)
(* step splits the audio and hands the list to the transcriber.            *)

TranscribeIOs == {NoFailure}
                 \cup {[NoFailure EXCEPT !.stage = "transcribe", !.idx = i] :
                         i \in 0..MaxFailIdx}

\* Transcriber.transcribe_all_chunks(AudioExtractor.split_audio(<scratch>/a.wav))
TranscribeAllChunks ==
    \E io \in TranscribeIOs, texts \in TextLists :
        LET lenMs == call.arg
            sp    == split_audio("a", lenMs, chunk_length, NoFailure)
            r     == transcribe_all_chunks(sp.value, texts, io)
        IN  /\ call.op = "audio"
            /\ scratch' = {AudioFile("a")} \cup sp.written
            /\ call' = Call("transcribe_all_chunks", <<"a", ".wav">>,
                            IF r.raised THEN "Raised" ELSE "List", r.called, lenMs,
                            [chunks |-> sp.value, results |-> r.value,
                             failAt |-> IF io.stage = "transcribe" THEN io.idx ELSE -1],
                            io.stage, FALSE, "NotCalled", "NotCalled")
            /\ UNCHANGED <<session, chunk_length, videos, chunks, entries, inputFiles,
                           finishedFiles, chat_history>>

NextTranscribe == TranscribeAllChunks

SpecTranscribe == InitSplit /\ [][NextTranscribe]_vars

-----------------------------------------------------------------------------
(* Time formatting on its own: format_time applied to whole numbers of     *)
(* seconds.  The initial state holds the number (call.op = "seconds", the  *)
(* number in call.arg); the one step formats it.                           *)

\* every number up to MaxSeconds, and numbers around one day and a hundred hours
Seconds ==
    (0..MaxSeconds)
    \cup {h * 3600 + m * 60 + sec : h \in {23, 24, 25, 99, 100}, m \in {0, 59},
                                    sec \in {0, 59}}

\* Transcriber.format_time(t)
FormatTime ==
    /\ call.op = "seconds"
    /\ call' = StoreCall("format_time", <<"", "">>, "Text", call.arg,
                         format_time(call.arg * 1000))
    /\ UNCHANGED <<session, chunk_length, videos, chunks, entries, scratch,
                   inputFiles, finishedFiles, chat_history>>

InitFormat ==
    /\ chunk_length = 600
    /\ videos = {}
    /\ chunks = {}
    /\ entries = {}
    /\ scratch = {}
    /\ inputFiles = Videos
    /\ finishedFiles = {}
    /\ chat_history = <<>>
    /\ session = "active"
    /\ call \in {StoreCall("seconds", <<"", "">>, "None", t, <<>>) : t \in Seconds}

NextFormat == FormatTime

SpecFormat == InitFormat /\ [][NextFormat]_vars

-----------------------------------------------------------------------------
(* The vector store on its own: add_transcripts given lists of transcripts *)
(* of which any may be empty or blank, once, over a collection that holds  *)
(* entries of none, one or both videos.                                    *)

\* the texts of the transcripts of a list: none, one or several, each empty,
\* blank or long enough to be split in two
TextSeqs ==
    UNION {[1..k -> {<<>>, <<" ">>, <<"h", "i", "!">>, <<"h", " ", "i">>}] :
             k \in 0..MaxTranscripts}

\* the transcripts of the texts; the one at position p (from 0) is the
\* transcription of the chunk after it, so that its own chunk_index and times
\* are not those of position p
TranscriptList(texts) == [p \in 1..Len(texts) |-> Transcript(p, texts[p])]

\* VectorStore.add_transcripts(transcripts, name)
VsAddTranscriptList ==
    \E name \in Videos, texts \in TextSeqs, fails \in BOOLEAN :
        LET r == add_transcripts(entries, TranscriptList(texts), name, fails)
        IN  /\ call.op = "none"
            /\ entries' = r.entries
            /\ call' = Call("add_transcript_list", name,
                            IF r.raised THEN "Raised" ELSE "Ids", <<>>, Len(r.ids),
                            [transcripts |-> TranscriptList(texts), ids |-> r.ids],
                            IF fails THEN "add_texts" ELSE "none", FALSE,
                            "NotCalled", "NotCalled")
            /\ UNCHANGED <<session, chunk_length, videos, chunks, scratch,
                           inputFiles, finishedFiles, chat_history>>

InitVs ==
    /\ chunk_length = 600
    /\ videos = {}
    /\ chunks = {}
    /\ entries \in {seed_entries(ns, {}) : ns \in SeedEntrySeqs}
    /\ scratch = {}
    /\ inputFiles = Videos
    /\ finishedFiles = {}
    /\ chat_history = <<>>
    /\ session = "active"
    /\ call = NoCall

NextVs == VsAddTranscriptList

SpecVs == InitVs /\ [][NextVs]_vars

-----------------------------------------------------------------------------
(* The chat engine over a vector store that add_transcripts fills *)

Questions == {"q1", "q2"}
Answers == {"yes"}
ChatFailures == {"none", "retrieve", "generate"}

\* RAGChat.ask(question)
Ask ==
    \E question \in Questions, answer \in Answers, failure \in ChatFailures,
       docs \in Retrievals(ask_candidates(entries), TOP_K_RESULTS) :
        LET r == answer_with_sources(chat_history, question, docs, answer, failure)
        IN  /\ Len(r.history) <= 2 * MaxTurns
            /\ chat_history' = r.history
            /\ call' = Call("ask", <<"", "">>, r.ret, <<question, r.answer>>, 0,
                            r.sources, failure, FALSE, "NotCalled", "NotCalled")
            /\ UNCHANGED <<session, chunk_length, videos, chunks, entries, scratch,
                           inputFiles, finishedFiles>>

\* RAGChat.ask_with_video_filter(question, video_name)
AskWithVideoFilter ==
    \E question \in Questions, video_name \in Videos, answer \in Answers,
       failure \in ChatFailures :
      \E docs \in Retrievals(filtered_candidates(entries, video_name), TOP_K_RESULTS) :
        LET r == answer_with_sources(chat_history, question, docs, answer, failure)
        IN  /\ Len(r.history) <= 2 * MaxTurns
            /\ chat_history' = r.history
            /\ call' = Call("ask_with_video_filter", video_name, r.ret,
                            <<question, r.answer>>, 0, r.sources, failure, FALSE,
                            "NotCalled", "NotCalled")
            /\ UNCHANGED <<session, chunk_length, videos, chunks, entries, scratch,
                           inputFiles, finishedFiles>>

\* RAGChat.clear_memory()
ClearMemory ==
    /\ chat_history' = <<>>
    /\ call' = StoreCall("clear_memory", <<"", "">>, "None", 0, <<>>)
    /\ UNCHANGED <<session, chunk_length, videos, chunks, entries, scratch, inputFiles,
                   finishedFiles>>

NextChat ==
    \/ VsAddTranscripts
    \/ Ask
    \/ AskWithVideoFilter
    \/ ClearMemory

SpecChat == Init /\ [][NextChat]_vars

-----------------------------------------------------------------------------
(* The claims *)

\* the (start, end) pairs of a list of audio chunks
Boundaries(cs) == [i \in 1..Len(cs) |-> <<cs[i][2], cs[i][3]>>]

\* the stage of the trace in which the failure named by call.stage happens
StageLabel(stage) ==
    CASE stage \in {"load", "export"} -> "split"
      [] stage = "add_chunk" -> "add_chunks"
      [] OTHER -> stage

\* the last call was a process_video run in which the injected failure happened
FailureHappened ==
    /\ call.op = "process_video"
    /\ call.stage # "none"
    /\ StageLabel(call.stage) \in Range(call.trace)

(***************************************************************************)
(* C1.  For every audio length D > 0 ms and chunk length L > 0 s, the list *)
(* split_audio returns has n chunks where n is the ceiling of D / (1000 L) *)
(* ((n-1) * 1000 L < D <= n * 1000 L), in order (chunk i is file number    *)
(* i); the first starts at 0, each starts where the one before ends, every *)
(* chunk but the last is exactly L long, every chunk has end > start, and  *)
(* the last ends at D exactly.                                             *)
(***************************************************************************)
C1_SplitAudioChunks ==
    (call.op = "split_audio" /\ call.ret = "List" /\ call.arg > 0) =>
        LET cs == call.value
            D  == call.arg
            W  == chunk_length * 1000
            n  == Len(cs)
        IN  /\ n >= 1
            /\ (n - 1) * W < D /\ D <= n * W
            /\ \A i \in 1..n : cs[i][1] = ChunkFile("a", i - 1)
            /\ cs[1][2] = 0
            /\ \A i \in 2..n : cs[i][2] = cs[i - 1][3]
            /\ \A i \in 1..(n - 1) : cs[i][3] - cs[i][2] = W
            /\ \A i \in 1..n : cs[i][3] > cs[i][2]
            /\ cs[n][3] = D

\* an audio cut into three chunks, the last one shorter than the chunk length
C1_Witness ==
    /\ call.op = "split_audio" /\ call.ret = "List"
    /\ Len(call.value) = 3
    /\ call.value[3][3] = call.arg
    /\ call.value[3][3] - call.value[3][2] < chunk_length * 1000

(***************************************************************************)
(* C2.  End to end: process_video on a 1500 s video with chunk length      *)
(* 600 s, from empty stores and with nothing failing, cuts the chunks      *)
(* (0,600), (600,1200), (1200,1500), returns True, and leaves a video row  *)
(* with total_duration 1500 and total_chunks 3 and three chunk rows with   *)
(* chunk_index 0, 1, 2 in that order.                                      *)
(***************************************************************************)
C2_EndToEnd ==
    [][(/\ call'.op = "process_video"
        /\ call'.arg = 1500 * 1000 /\ chunk_length = 600
        /\ call'.stage = "none" /\ ~call'.unlinkFails
        /\ call'.name \in inputFiles
        /\ videos = {} /\ chunks = {} /\ entries = {})
       => (/\ Boundaries(call'.value) =
                << <<0, 600 * 1000>>, <<600 * 1000, 1200 * 1000>>,
                   <<1200 * 1000, 1500 * 1000>> >>
           /\ call'.ret = "True"
           /\ \E r \in videos' : /\ r.video_name = call'.name
                                 /\ r.total_duration = 1500 * 1000
                                 /\ r.total_chunks = 3
           /\ LET rows == get_chunks_by_video(chunks', call'.name)
              IN  [i \in 1..Len(rows) |-> rows[i].chunk_index] = <<0, 1, 2>>)]_vars

(***************************************************************************)
(* C3.  The skip: when the name is in the metadata store and in the vector *)
(* store, process_video returns False, enters no stage, and leaves the two *)
(* stores, the scratch directory, the source file and the finished         *)
(* directory as they were.                                                 *)
(***************************************************************************)
C3_SkipChangesNothing ==
    [][(/\ call'.op = "process_video"
        /\ \E r \in videos : r.video_name = call'.name
        /\ \E e \in entries : e.video_name = call'.name)
       => (/\ call'.ret = "False"
           /\ call'.trace = <<>>
           /\ UNCHANGED <<videos, chunks, entries, scratch, inputFiles,
                          finishedFiles>>)]_vars

(***************************************************************************)
(* C4.  Scratch cleanup regardless of outcome: after a process_video run   *)
(* that got as far as audio extraction, no scratch file of that run (no    *)
(* file of its stem) is left in the scratch directory, unlinking working.  *)
(***************************************************************************)
C4_ScratchCleaned ==
    (/\ call.op = "process_video"
     /\ "extract" \in Range(call.trace)
     /\ ~call.unlinkFails)
    => \A f \in scratch : f[1] # call.name[1]

(***************************************************************************)
(* C5.  process_video never lets an exception out: every run returns True  *)
(* or False, and a run in which extraction, splitting, transcription, a    *)
(* store write or the move failed returns False, also when the cleanup     *)
(* fails too.                                                              *)
(***************************************************************************)
C5_NeverRaises ==
    /\ call.op = "process_video" => call.ret \in {"True", "False"}
    /\ FailureHappened => call.ret = "False"

\* a run whose extraction failed, leaving its file, and whose cleanup failed too
C5_Witness ==
    /\ FailureHappened
    /\ call.stage = "extract" /\ call.unlinkFails
    /\ call.ret = "False"
    /\ AudioFile(call.name[1]) \in scratch

\* the stages of a run, in the order the code enters them
StageOrder == <<"extract", "split", "transcribe", "add_video", "add_chunks",
                "embed", "move">>

InStageOrder(trace) ==
    \E k \in 0..Len(StageOrder) :
        \/ trace = SubSeq(StageOrder, 1, k)
        \/ trace = SubSeq(StageOrder, 1, k) \o <<"cleanup">>

\* the last stage a run entered, the cleanup aside
LastStage(trace) ==
    LET t == SelectSeq(trace, LAMBDA x : x # "cleanup") IN t[Len(t)]

(***************************************************************************)
(* C6.  Stage order: a run enters the stages extract, split, transcribe,   *)
(* persist metadata (video row, chunk rows), persist embeddings, relocate  *)
(* in that order and stops at the first failure; a run that stopped in     *)
(* extract, split or transcribe wrote no video row, no chunk row and no    *)
(* vector entry and moved nothing, and a run that did not get past the     *)
(* embedding write moved nothing.                                          *)
(***************************************************************************)
C6_StageOrder ==
    [][call'.op = "process_video"
       => (/\ InStageOrder(call'.trace)
           /\ FailureHappened' => LastStage(call'.trace) = StageLabel(call'.stage)
           /\ "add_video" \notin Range(call'.trace)
                => UNCHANGED <<videos, chunks, entries, inputFiles, finishedFiles>>
           /\ "move" \notin Range(call'.trace)
                => UNCHANGED <<inputFiles, finishedFiles>>
           /\ call'.ret # "True" => UNCHANGED <<inputFiles, finishedFiles>>)]_vars

\* a run whose transcription failed: nothing written, the source still in place
C6_Witness ==
    /\ FailureHappened
    /\ call.stage = "transcribe"
    /\ call.trace = <<"extract", "split", "transcribe", "cleanup">>
    /\ call.name \in inputFiles
    /\ videos # {}

(***************************************************************************)
(* C7.  VideoProcessor.delete_video returns True only if both stores'      *)
(* deletions returned True; the vector-store deletion is attempted in      *)
(* every call, also after the metadata deletion returned False; and a      *)
(* metadata deletion that returned True stays done (no row of the name is  *)
(* left) when the vector-store deletion then returns False.                *)
(***************************************************************************)
C7_DeleteBothStores ==
    [][call'.op = "delete_video"
       => (/\ call'.ret = "True" => call'.dbRet = "True" /\ call'.vsRet = "True"
           /\ call'.vsRet # "NotCalled"
           /\ call'.dbRet = "True"
                => /\ \A r \in videos' : r.video_name # call'.name
                   /\ \A r \in chunks' : r.video_name # call'.name
           /\ call'.vsRet = "True"
                => \A e \in entries' : e.video_name # call'.name)]_vars

\* a partial deletion: the metadata rows are gone, the vector entries are not
C7_Witness ==
    /\ call.op = "delete_video" /\ call.ret = "False"
    /\ call.dbRet = "True" /\ call.vsRet = "False"
    /\ \A r \in videos : r.video_name # call.name
    /\ \E e \in entries : e.video_name = call.name

(***************************************************************************)
(* C8.  VideoProcessor.delete_video returns False, and raises nothing,     *)
(* when the name is not in the metadata store.                             *)
(***************************************************************************)
C8_NotFoundReturnsFalse ==
    (call.op = "delete_video" /\ call.dbRet = "NotCalled") => call.ret = "False"

(***************************************************************************)
(* C9.  After Database.delete_video(name) returned True, video_exists      *)
(* (name) is false and get_chunks_by_video(name) is empty.                 *)
(***************************************************************************)
C9_DeleteThenGone ==
    (call.op = "db_delete_video" /\ call.ret = "True")
    => /\ ~video_exists(videos, call.name)
       /\ get_chunks_by_video(chunks, call.name) = <<>>

\* a deletion that removed a video row and a chunk row and left another video's row
C9_Witness ==
    /\ call.op = "db_delete_video" /\ call.ret = "True"
    /\ call.arg >= 2
    /\ chunks # {}

(***************************************************************************)
(* C10.  Every source ask_with_video_filter(question, X) returns has       *)
(* video_name X, whatever else the vector store holds; a call that failed  *)
(* returns no sources.                                                     *)
(***************************************************************************)
C10_FilteredSources ==
    call.op = "ask_with_video_filter"
    => /\ \A i \in DOMAIN call.value : call.value[i].video_name = call.name
       /\ call.ret = "Error" => call.value = <<>>

\* a filtered answer with a source, given while another video's entry is in the store
C10_Witness ==
    /\ call.op = "ask_with_video_filter" /\ call.ret = "Answer"
    /\ Len(call.value) >= 1
    /\ \E e \in entries : e.video_name # call.name

\* the last call was a question put to the chat engine
ChatCall == call.op \in {"ask", "ask_with_video_filter"}

(***************************************************************************)
(* C11.  ask and ask_with_video_filter never let an exception out: every   *)
(* call returns a result, and a call whose retrieval or generation failed  *)
(* returns the error answer (not the chain's answer) with an empty source  *)
(* list.                                                                   *)
(***************************************************************************)
C11_AskNeverRaises ==
    ChatCall =>
        /\ call.ret \in {"Answer", "Error"}
        /\ call.stage # "none"
             => /\ call.ret = "Error"
                /\ call.trace[2] = "Sorry"
                /\ call.value = <<>>

\* a filtered question whose generation failed while the store held entries of the video
C11_Witness ==
    /\ call.op = "ask_with_video_filter"
    /\ call.stage = "generate"
    /\ call.ret = "Error" /\ call.value = <<>>
    /\ \E e \in entries : e.video_name = call.name

(***************************************************************************)
(* C12.  The chat history is a list of question/answer pairs: its length   *)
(* is even, entries alternate question then answer; a call that succeeded  *)
(* appends its question and its answer, in that order, at the end; a call  *)
(* that failed leaves the history as it was; clear_memory empties it; and  *)
(* no other step changes it.  (With the empty history at the start, the    *)
(* length is twice the number of successful calls since the last clear.)   *)
(***************************************************************************)
C12_ChatHistoryPairs ==
    [][/\ Len(chat_history') % 2 = 0
       /\ \A i \in DOMAIN chat_history' :
             chat_history'[i][1] = (IF i % 2 = 1 THEN "human" ELSE "ai")
       /\ (ChatCall' /\ call'.ret = "Answer")
             => chat_history' = chat_history \o << <<"human", call'.trace[1]>>,
                                                  <<"ai", call'.trace[2]>> >>
       /\ (ChatCall' /\ call'.ret # "Answer") => chat_history' = chat_history
       /\ call'.op = "clear_memory" => chat_history' = <<>>
       /\ (~ChatCall' /\ call'.op # "clear_memory") => chat_history' = chat_history
      ]_vars

\* two successful calls, an unfiltered and a filtered one, then a failed call
C12_Witness ==
    /\ ChatCall /\ call.ret = "Error"
    /\ Len(chat_history) = 4
    /\ chat_history[1] = <<"human", "q1">>
    /\ chat_history[3] = <<"human", "q2">>

(***************************************************************************)
(* C13.  In process_folder every listed video gets one turn, in listing    *)
(* order.  A video both stores hold when its turn comes is counted as      *)
(* skipped, process_video is not invoked for it and its name is in neither *)
(* the processed nor the failed list; process_video is invoked exactly     *)
(* once, in listing order, for each of the other videos.                   *)
(***************************************************************************)
C13_FolderSkip ==
    call.op = "process_folder" =>
        LET v    == call.value
            n    == Len(v.listing)
            skip == {i \in 1..n : v.present[i]}
        IN  /\ Len(v.present) = n
            /\ v.stats.skipped = Cardinality(skip)
            /\ \A i \in skip :
                  /\ v.listing[i] \notin Range(v.calls)
                  /\ v.listing[i] \notin Range(v.stats.processed_videos)
                  /\ v.listing[i] \notin Range(v.stats.failed_videos)
            /\ v.calls = SelectSeq(v.listing,
                                   LAMBDA x : \E i \in (1..n) \ skip : v.listing[i] = x)

(***************************************************************************)
(* C18.  add_video with a name that already has a video row raises and     *)
(* leaves the metadata store as it was: no row is added, changed or        *)
(* removed in either table, and the session is active again.  The store    *)
(* stays usable: the add_video call that follows a raised one, for a name  *)
(* without a row and with no database error, returns the id of its new     *)
(* row.                                                                    *)
(***************************************************************************)
C18_DuplicateAddVideo ==
    [][call'.op = "add_video"
       => (/\ video_exists(videos, call'.name)
                => /\ call'.ret = "Raised"
                   /\ UNCHANGED <<videos, chunks>>
                   /\ session' = "active"
           /\ (/\ call.op = "add_video" /\ call.ret = "Raised"
               /\ call'.stage = "none"
               /\ ~video_exists(videos, call'.name))
                => /\ call'.ret = "Id"
                   /\ \E r \in videos' : r.video_name = call'.name /\ r.id = call'.arg
                   /\ \A r \in videos : r \in videos')]_vars

\* a duplicate add refused with no database error besides: the row of the
\* name is still the only one of that name, next to a row of the other video
C18_Witness ==
    /\ call.op = "add_video" /\ call.ret = "Raised" /\ call.stage = "none"
    /\ Cardinality({r \in videos : r.video_name = call.name}) = 1
    /\ Cardinality(videos) = 2
    /\ session = "active"

\* the number a sequence of decimal digit characters writes
DigitValue(c) ==
    CASE c = "0" -> 0 [] c = "1" -> 1 [] c = "2" -> 2 [] c = "3" -> 3 [] c = "4" -> 4
      [] c = "5" -> 5 [] c = "6" -> 6 [] c = "7" -> 7 [] c = "8" -> 8 [] c = "9" -> 9

RECURSIVE Decimal(_)
Decimal(cs) ==
    IF cs = <<>> THEN 0
    ELSE 10 * Decimal(SubSeq(cs, 1, Len(cs) - 1)) + DigitValue(cs[Len(cs)])

IsDigits(cs) ==
    \A i \in DOMAIN cs : cs[i] \in {"0", "1", "2", "3", "4", "5", "6", "7", "8", "9"}

(***************************************************************************)
(* C19.  For every whole number of seconds t >= 0, format_time(t) reads    *)
(* HH:MM:SS: digits, a colon, two digits, a colon, two digits, where HH    *)
(* written with at least two digits (and no more than it needs) is         *)
(* t div 3600, MM is (t mod 3600) div 60 and SS is t mod 60, both below    *)
(* 60; format_time(0) = 00:00:00, format_time(65) = 00:01:05,              *)
(* format_time(3725) = 01:02:05, and t >= 86400 gives HH >= 24.            *)
(***************************************************************************)
C19_FormatTime ==
    call.op = "format_time" =>
        LET t  == call.arg
            v  == call.value
            n  == Len(v)
            HH == SubSeq(v, 1, n - 6)
            MM == SubSeq(v, n - 4, n - 3)
            SS == SubSeq(v, n - 1, n)
        IN  /\ n >= 8
            /\ v[n - 5] = ":" /\ v[n - 2] = ":"
            /\ IsDigits(HH) /\ IsDigits(MM) /\ IsDigits(SS)
            /\ Decimal(HH) = t \div 3600
            /\ Len(HH) > 2 => HH[1] # "0"
            /\ Decimal(MM) = (t % 3600) \div 60 /\ Decimal(MM) < 60
            /\ Decimal(SS) = t % 60 /\ Decimal(SS) < 60
            /\ t = 0 => v = <<"0", "0", ":", "0", "0", ":", "0", "0">>
            /\ t = 65 => v = <<"0", "0", ":", "0", "1", ":", "0", "5">>
            /\ t = 3725 => v = <<"0", "1", ":", "0", "2", ":", "0", "5">>
            /\ t >= 86400 => Decimal(HH) >= 24

\* a time of more than a day: 25 hours, 59 minutes, 59 seconds
C19_Witness ==
    /\ call.op = "format_time"
    /\ call.arg = 25 * 3600 + 59 * 60 + 59
    /\ call.value = <<"2", "5", ":", "5", "9", ":", "5", "9">>

(***************************************************************************)
(* C20.  add_transcripts inserts nothing for a transcript whose text is    *)
(* empty or blank, and when nothing is left to add (the empty list among   *)
(* the cases) it returns the empty list and leaves the collection as it    *)
(* was, whatever the vector store would have done.  Every entry it inserts *)
(* carries the given video name, as chunk_index the position (from 0) of   *)
(* its parent transcript in the input list, and the parent's start and end *)
(* times; the entries of one parent are numbered 0, 1, ... by              *)
(* sub_chunk_index; every transcript with text gets at least one entry;    *)
(* one id is returned for each entry; and no entry is removed.             *)
(***************************************************************************)
C20_AddTranscripts ==
    [][call'.op = "add_transcript_list"
       => LET ts    == call'.value.transcripts
              ids   == call'.value.ids
              added == entries' \ entries
              kept  == {p \in 1..Len(ts) : ~Blank(ts[p].text)}
              of(p) == {e \in added : e.chunk_index = p - 1}
          IN  /\ entries \subseteq entries'
              /\ kept = {} => (call'.ret = "Ids" /\ ids = <<>> /\ added = {})
              /\ call'.ret = "Raised" => added = {}
              /\ \A e \in added :
                    /\ e.video_name = call'.name
                    /\ e.chunk_index + 1 \in kept
                    /\ e.start_time = ts[e.chunk_index + 1].start_time
                    /\ e.end_time = ts[e.chunk_index + 1].end_time
              /\ call'.ret = "Ids" =>
                    /\ Len(ids) = Cardinality(added)
                    /\ {ids[k] : k \in DOMAIN ids} = {e.id : e \in added}
                    /\ \A p \in kept :
                          /\ of(p) # {}
                          /\ {e.sub_chunk_index : e \in of(p)}
                               = 0..(Cardinality(of(p)) - 1)]_vars

\* a list whose first transcript is blank and whose second has text: the
\* entries added have chunk_index 1 and sub_chunk_index 0 and 1
C20_Witness ==
    /\ call.op = "add_transcript_list" /\ call.ret = "Ids"
    /\ Len(call.value.transcripts) = 2
    /\ Blank(call.value.transcripts[1].text)
    /\ Len(call.value.ids) = 2
    /\ \A k \in 1..2 : \E e \in entries :
          /\ e.id = call.value.ids[k]
          /\ e.chunk_index = 1 /\ e.sub_chunk_index = k - 1

(***************************************************************************)
(* C22: transcribe_all_chunks, given the list split_audio produces,        *)
(* requests the transcriptions strictly in list order; when the service    *)
(* fails nowhere it returns one result per chunk in the same order, the    *)
(* i-th carrying chunk_index i and that chunk's start and end times; when  *)
(* the service fails at chunk i, no later chunk is requested and the       *)
(* failure propagates.                                                     *)
(***************************************************************************)
C22_TranscribeInOrder ==
    call.op = "transcribe_all_chunks" =>
        LET chs    == call.value.chunks
            res    == call.value.results
            called == call.trace
        IN  /\ \A k \in 1..Len(called) : called[k] = k - 1
            /\ IF call.value.failAt \in 0..(Len(chs) - 1)
               THEN /\ call.ret = "Raised"
                    /\ Len(called) = call.value.failAt + 1
               ELSE /\ call.ret = "List"
                    /\ Len(res) = Len(chs)
                    /\ Len(called) = Len(chs)
                    /\ \A k \in 1..Len(res) :
                          /\ res[k].chunk_index = k - 1
                          /\ res[k].start_time = chs[k][2]
                          /\ res[k].end_time = chs[k][3]

(***************************************************************************)
(* C23: a process_video run on a video in the input directory that has     *)
(* audio, whose transcripts are all blank (so that the embedding stage     *)
(* yields no ids), that no store holds entries of and in which nothing     *)
(* fails, returns True, has moved the source to the finished directory and *)
(* leaves the video in the metadata store and out of the vector store.     *)
(***************************************************************************)
C23_BlankVideoProcessed ==
    [][(/\ call'.op = "process_video"
        /\ call'.stage = "none"
        /\ call'.arg > 0
        /\ call'.name \in inputFiles
        /\ call'.name \notin get_all_video_names(entries, FALSE))
       => (/\ call'.ret = "True"
           /\ call'.name \notin inputFiles'
           /\ \E f \in finishedFiles' \ finishedFiles :
                 f[1] = call'.name[1] /\ f[3] = call'.name[2]
           /\ video_exists(videos', call'.name)
           /\ call'.name \notin get_all_video_names(entries', FALSE))]_vars

(***************************************************************************)
(* C25: delete_by_video_name(name) returns False and changes nothing when  *)
(* the vector store holds no entry of that name; when it returns True, no  *)
(* entry of that name remains and the entries of every other video are     *)
(* the ones that were there.                                               *)
(***************************************************************************)
C25_DeleteByVideoName ==
    [][call'.op = "delete_by_video_name"
       => /\ (call'.name \notin get_all_video_names(entries, FALSE)
                => call'.ret = "False" /\ entries' = entries)
          /\ (call'.ret = "True"
                => /\ call'.name \notin get_all_video_names(entries', FALSE)
                   /\ {e \in entries' : e.video_name # call'.name}
                        = {e \in entries : e.video_name # call'.name})]_vars

\* a video's entries have just been deleted while another video's are there
C25_Witness ==
    /\ call.op = "delete_by_video_name"
    /\ call.ret = "True"
    /\ call.name \notin get_all_video_names(entries, FALSE)
    /\ entries # {}

(***************************************************************************)
(* C26: Database.delete_video(name) is one logical unit.  It returns True  *)
(* or False and never raises; it returns False exactly when an exception   *)
(* occurred inside it, and then no row was removed; when it returns True   *)
(* the video row and every chunk row of the name are gone; either way the  *)
(* rows of every other video are the ones that were there.                 *)
(***************************************************************************)
C26_DeleteVideoUnit ==
    [][call'.op = "db_delete_video"
       => /\ call'.ret \in {"True", "False"}
          /\ (call'.ret = "False") = (call'.stage = "database")
          /\ (call'.ret = "False" => videos' = videos /\ chunks' = chunks)
          /\ (call'.ret = "True"
                => /\ \A r \in videos' : r.video_name # call'.name
                   /\ \A r \in chunks' : r.video_name # call'.name)
          /\ {r \in videos' : r.video_name # call'.name}
               = {r \in videos : r.video_name # call'.name}
          /\ {r \in chunks' : r.video_name # call'.name}
               = {r \in chunks : r.video_name # call'.name}]_vars

\* a deletion that failed inside and left the video's row and chunk row in place
C26_Witness ==
    /\ call.op = "db_delete_video"
    /\ call.ret = "False"
    /\ call.stage = "database"
    /\ video_exists(videos, call.name)
    /\ get_chunks_by_video(chunks, call.name) # <<>>

\* how often x occurs in the sequence s
Occurrences(s, x) == Cardinality({i \in DOMAIN s : s[i] = x})

(***************************************************************************)
(* C27: the summary process_folder returns satisfies total = sucess +      *)
(* failed + skipped, total being the number of listed videos; the list of  *)
(* processed names has sucess entries and the list of failed names failed  *)
(* entries; every listed video is counted exactly once: it was skipped, or *)
(* it is in the processed list once, or in the failed list once.           *)
(***************************************************************************)
C27_FolderSummary ==
    call.op = "process_folder" =>
        LET v == call.value
            s == v.stats
            n == Len(v.listing)
        IN  /\ s.total = n
            /\ s.total = s.sucess + s.failed + s.skipped
            /\ Len(s.processed_videos) = s.sucess
            /\ Len(s.failed_videos) = s.failed
            /\ s.skipped = Cardinality({i \in 1..n : v.skips[i]})
            /\ \A i \in 1..n :
                  (IF v.skips[i] THEN 1 ELSE 0)
                  + Occurrences(s.processed_videos, v.listing[i])
                  + Occurrences(s.failed_videos, v.listing[i]) = 1

\* a folder of two videos, one skipped and one attempted without success
C27_Witness ==
    /\ call.op = "process_folder"
    /\ call.value.stats.total = 2
    /\ call.value.stats.skipped = 1
    /\ call.value.stats.failed = 1
    /\ Len(call.value.stats.failed_videos) = 1

(***************************************************************************)
(* C28: process_video, called for a file that is in the input directory,   *)
(* returns True exactly when it relocated the file.  After True the file   *)
(* is gone from the input directory and a file of its stem and suffix has  *)
(* been added to the finished directory; after False (a skip, or a failure *)
(* at any stage) the file is still in the input directory.                 *)
(***************************************************************************)
C28_TrueIffRelocated ==
    [][(call'.op = "process_video" /\ call'.name \in inputFiles)
       => LET moved == /\ call'.name \notin inputFiles'
                       /\ \E f \in finishedFiles' \ finishedFiles :
                             f[1] = call'.name[1] /\ f[3] = call'.name[2]
          IN  /\ call'.ret \in {"True", "False"}
              /\ (call'.ret = "True") = moved
              /\ (call'.ret = "False" => call'.name \in inputFiles')]_vars

\* a run that failed after the audio was split, its source still in the input
\* directory
C28_Witness ==
    /\ call.op = "process_video"
    /\ call.ret = "False"
    /\ "transcribe" \in Range(call.trace)
    /\ call.name \in inputFiles
    /\ finishedFiles = {}

=============================================================================
